---- MODULE Spec2Model ----
(* Model of appweb/web.py: application start-up (revision manifest),      *)
(* the per-request pipeline (locale, normalisation, error pages) and the   *)
(* category remapping wrapper torrents_data2.                              *)
(* Text values the code slices or scans are sequences of one-character     *)
(* strings; opaque tokens (file types, category names) are strings.        *)
EXTENDS Integers, Sequences, FiniteSets, TLC

VARIABLES
    app_pc,          \* "boot" before create_app has run, "running" after
    revision_file,   \* the "revision" file next to the package: exists, data
    config,          \* app.config (a dict: a function over its keys)
    app_assets_url,  \* app.assets.url, one attribute of the one Environment
    rq,              \* the requests in flight, each with its own g
    remap_pc, data, data0, new_data, result   \* one call of torrents_data2

app_vars == <<app_pc, revision_file, config, app_assets_url>>

remap_vars == <<remap_pc, data, data0, new_data, result>>

vars == <<app_pc, revision_file, config, app_assets_url, rq,
          remap_pc, data, data0, new_data, result>>

\* ---------------------------------------------------------------- bounds
MaxTags == 2
MaxPathLen == 3
MaxQueryLen == 2
MaxData == 3
MaxHops == 2
NumRequests == 2

\* --------------------------------------------------------------- helpers
Range(s) == {s[i] : i \in 1..Len(s)}

SeqsUpTo(S, n) == UNION {[1..k -> S] : k \in 0..n}

\* d[k] = v on a python dict (a function over its keys)
DictSet(d, k, v) == [x \in (DOMAIN d) \cup {k} |-> IF x = k THEN v ELSE d[x]]

Min(a, b) == IF a < b THEN a ELSE b

\* python s[a:b] for 0 <= a
PySlice(s, a, b) == SubSeq(s, a + 1, Min(b, Len(s)))

\* python s[a:]
PyFrom(s, a) == SubSeq(s, a + 1, Len(s))

StartsWith(s, p) == Len(s) >= Len(p) /\ SubSeq(s, 1, Len(p)) = p

EndsWith(s, c) == Len(s) > 0 /\ s[Len(s)] = c

\* python s.rstrip(c): every trailing c goes
RECURSIVE RStrip(_, _)
RStrip(s, c) == IF EndsWith(s, c) THEN RStrip(SubSeq(s, 1, Len(s) - 1), c) ELSE s

\* python s.lstrip() / s.strip() over a set of blank characters
RECURSIVE RStripSet(_, _)
RStripSet(s, W) ==
    IF Len(s) > 0 /\ s[Len(s)] \in W THEN RStripSet(SubSeq(s, 1, Len(s) - 1), W) ELSE s

RECURSIVE LStripSet(_, _)
LStripSet(s, W) ==
    IF Len(s) > 0 /\ s[1] \in W THEN LStripSet(SubSeq(s, 2, Len(s)), W) ELSE s

StripSet(s, W) == LStripSet(RStripSet(s, W), W)

\* python s.find(p): 0-based position of the first occurrence of p, or -1
Find(s, p) ==
    LET hits == {i \in 1..(Len(s) - Len(p) + 1) : SubSeq(s, i, i + Len(p) - 1) = p}
    IN IF hits = {} THEN -1 ELSE (CHOOSE i \in hits : \A j \in hits : i <= j) - 1

\* python s.split(c): pieces between single separators, empty pieces kept
RECURSIVE SplitOn(_, _)
SplitOn(s, c) ==
    LET i == Find(s, <<c>>)
    IN IF i = -1 THEN <<s>>
       ELSE <<SubSeq(s, 1, i)>> \o SplitOn(PyFrom(s, i + 1), c)

\* ------------------------------------------------------ RevisionVersioner
Blank == {" ", "\n"}

ManifestChars == {"a", " ", "#", "\n"}

CharCode(c) == CASE c = "a" -> 97 [] c = " " -> 32 [] c = "#" -> 35 [] OTHER -> 10

HexDigits == <<"0", "1", "2", "3", "4", "5", "6", "7",
               "8", "9", "a", "b", "c", "d", "e", "f">>

\* a digest of the raw text, folded character by character (16 bits wide
\* here so that it can be computed; the code uses the 128 bits of MD5)
RECURSIVE Digest(_, _)
Digest(s, h) ==
    IF s = <<>> THEN h ELSE Digest(Tail(s), ((h * 31) + CharCode(Head(s))) % 65536)

\* md5(data).hexdigest()
md5_hexdigest(s) ==
    LET n == Digest(s, 7)
    IN <<HexDigits[((n \div 4096) % 16) + 1], HexDigits[((n \div 256) % 16) + 1],
         HexDigits[((n \div 16) % 16) + 1], HexDigits[(n % 16) + 1]>>

\* python s.split(): the runs of non-blank characters
RECURSIVE SplitWS(_)
SplitWS(s) ==
    LET t == LStripSet(s, Blank)
        n == (CHOOSE i \in 1..(Len(t) + 1) :
                /\ (i = Len(t) + 1 \/ t[i] \in Blank)
                /\ \A j \in 1..(i - 1) : t[j] \notin Blank) - 1
    IN IF t = <<>> THEN <<>> ELSE <<SubSeq(t, 1, n)>> \o SplitWS(PyFrom(t, n))

\* if line.strip() and not line.strip().startswith("#")
KeptLine(line) ==
    /\ StripSet(line, Blank) # <<>>
    /\ ~ StartsWith(StripSet(line, Blank), <<"#">>)

\* the tuple of tuples "revisions" built from the file's text
parse_revisions(text) ==
    LET lines == SelectSeq(SplitOn(StripSet(text, Blank), "\n"), KeptLine)
    IN [i \in 1..Len(lines) |-> SplitWS(SplitOn(lines[i], "#")[1])]

None == [some |-> FALSE, val |-> <<>>]

Some(x) == [some |-> TRUE, val |-> x]

\* app.static_url_path
static_url_path == "/static"

\* the prefix without the value configured before
cache_key_prefix_fresh(cfg, revision_hash) == revision_hash \o <<"/">>

\* "%s%s/" % (CACHE_KEY_PREFIX if configured else "", revision_hash)
cache_key_prefix(cfg, revision_hash) ==
    (IF "CACHE_KEY_PREFIX" \in DOMAIN cfg THEN cfg["CACHE_KEY_PREFIX"] ELSE <<>>)
      \o revision_hash \o <<"/">>

\* app.config.update(...) of either branch on os.path.exists
revision_config(cfg, file) ==
    IF file.exists
      THEN LET revision_hash == md5_hexdigest(file.data)
           IN DictSet(DictSet(DictSet(cfg,
                "CACHE_KEY_PREFIX", cache_key_prefix(cfg, revision_hash)),
                "REVISION_HASH", Some(revision_hash)),
                "REVISION", parse_revisions(file.data))
      ELSE DictSet(DictSet(cfg, "REVISION_HASH", None), "REVISION", <<>>)

\* the configuration create_app starts from (defaults plus the config object)
BaseConfigs ==
    {[APPWEB_MODE |-> m, STATIC_PREFIX |-> p] :
        m \in {"search", "extras", ""}, p \in {"None", "//cdn"}}
    \cup {[APPWEB_MODE |-> m, STATIC_PREFIX |-> p, CACHE_KEY_PREFIX |-> k] :
        m \in {"search", "extras", ""}, p \in {"None", "//cdn"}, k \in {<<"p", "/">>}}

RevisionFiles ==
    {[exists |-> FALSE, data |-> <<>>]}
    \cup {[exists |-> TRUE, data |-> d] : d \in SeqsUpTo(ManifestChars, MaxData)}

\* create_app: the revision block, then the asset environment
create_app ==
    /\ app_pc = "boot"
    /\ config' = revision_config(config, revision_file)
    /\ app_assets_url' = static_url_path
    /\ app_pc' = "running"
    /\ UNCHANGED <<revision_file, rq, remap_vars>>

\* ----------------------------------------------------- the request pipeline
Requests == 1..NumRequests

Scheme == <<"h", "t", "t", "p", ":">>

BetaHost == <<"b", "e", "t", "a", ".", "t">>

MainHost == <<"t">>

Hosts == {BetaHost, MainHost}

PathChars == {"/", "e", "s"}

StaticDir == <<"/", "s", "t", "a", "t", "i", "c", "/">>

Paths ==
    {<<"/">> \o p : p \in SeqsUpTo(PathChars, MaxPathLen - 1)}
    \cup {StaticDir, StaticDir \o <<"e">>, StaticDir \o <<"e", "/">>}

Queries == SeqsUpTo({"?", "/"}, MaxQueryLen)

En == <<"e", "n">>

Es == <<"e", "s">>

\* request.url_root: scheme://host/
url_root(req) == Scheme \o <<"/", "/">> \o req.host \o <<"/">>

\* request.url: the root, the path, and "?query" when the query is not empty
request_url(req) ==
    SubSeq(url_root(req), 1, Len(url_root(req)) - 1) \o req.path
      \o (IF req.query # <<>> THEN <<"?">> \o req.query ELSE <<>>)

\* the arguments each endpoint of the url map declares
UrlMap ==
    ("files.home" :> {"lang"}) @@ ("files.download" :> {"lang", "id"})
    @@ ("files.raw" :> {"id"}) @@ ("extras.home" :> {"lang"})
    @@ ("extras.raw" :> {"id"}) @@ ("static" :> {"filename"})

\* app.register_blueprint(files | extras) by APPWEB_MODE, plus static
RegisteredEndpoints(cfg) ==
    {"static"} \cup
    (IF cfg["APPWEB_MODE"] = "search" THEN {"files.home", "files.download", "files.raw"}
     ELSE IF cfg["APPWEB_MODE"] = "extras" THEN {"extras.home", "extras.raw"}
     ELSE {})

BlueprintOf(endpoint) ==
    IF endpoint \in {"files.home", "files.download", "files.raw"} THEN "files"
    ELSE IF endpoint \in {"extras.home", "extras.raw"} THEN "extras"
    ELSE ""

\* captured values of a matched rule, as far as the rule declares them
ViewArgsOf(endpoint) ==
    {v \in {[lang |-> Es], [id |-> <<"7">>], [lang |-> Es, id |-> <<"7">>],
            [filename |-> <<"e">>]} : DOMAIN v = UrlMap[endpoint]}

\* what routing can find for a path: nothing, or a registered rule
Routes(cfg, path) ==
    {[matched |-> FALSE, endpoint |-> "", blueprint |-> "", view_args |-> <<>>]}
    \cup UNION {
            {[matched |-> TRUE, endpoint |-> ep, blueprint |-> BlueprintOf(ep),
              view_args |-> v] : v \in ViewArgsOf(ep)} :
            ep \in {x \in RegisteredEndpoints(cfg) :
                      (x = "static") = StartsWith(path, StaticDir)}}

GAttrs == {"license_name", "analytics_code", "search_bot", "beta_request",
           "home_route", "static_prefix", "keywords", "args",
           "page_description", "title", "tos_link", "privacy_link", "categories"}

NoG == [attrs |-> {}, lang |-> <<>>, search_bot |-> FALSE, beta_request |-> FALSE,
        home_route |-> "", static_prefix |-> ""]

NoBuilt == [made |-> FALSE, endpoint |-> "", values_in |-> <<>>, values_out |-> <<>>]

NoResp == [kind |-> "none", status |-> 0, location |-> <<>>, code |-> <<>>,
           title |-> "", description |-> "", asset_url |-> "",
           headers |-> {}, built |-> NoBuilt]

NoErr == [has_code |-> FALSE, code |-> 0]

NewRequest(host, path, query, route, bot, hops) ==
    [pc |-> "routed", host |-> host, path |-> path, query |-> query,
     matched |-> route.matched, endpoint |-> route.endpoint,
     blueprint |-> route.blueprint, view_args |-> route.view_args,
     captured |-> route.view_args, bot |-> bot, g |-> NoG, forwarded |-> <<>>, e |-> NoErr,
     resp |-> NoResp, hops |-> hops]

NoRequest ==
    [pc |-> "none", host |-> MainHost, path |-> <<"/">>, query |-> <<>>,
     matched |-> FALSE, endpoint |-> "", blueprint |-> "", view_args |-> <<>>,
     captured |-> <<>>, bot |-> FALSE, g |-> NoG, forwarded |-> <<>>, e |-> NoErr,
     resp |-> NoResp, hops |-> 0]

\* ---- LocaleResolver
\* g.lang of pull_lang_code: "en" for values None, else values.pop('lang', "en")
pulled_lang(matched, values) ==
    IF ~ matched THEN En
    ELSE IF "lang" \in DOMAIN values THEN values["lang"] ELSE En

\* the view_args after values.pop('lang', ...)
popped_values(matched, values) ==
    IF ~ matched THEN values
    ELSE [k \in (DOMAIN values) \ {"lang"} |-> values[k]]

pull_lang_code(r) ==
    /\ app_pc = "running"
    /\ rq[r].pc = "routed"
    /\ rq' = [rq EXCEPT ![r] =
                [@ EXCEPT !.pc = "preprocessed",
                          !.g = [@ EXCEPT !.lang = pulled_lang(rq[r].matched, rq[r].view_args),
                                          !.attrs = @ \cup {"lang"}],
                          !.view_args = popped_values(rq[r].matched, rq[r].view_args)]]
    /\ UNCHANGED <<app_vars, remap_vars>>

\* the language written over a value the caller supplied
add_language_code_always(gg, endpoint, values) ==
    IF "lang" \in UrlMap[endpoint] THEN DictSet(values, "lang", gg.lang) ELSE values

\* url_defaults callback: values['lang'] = g.lang when the endpoint expects
\* lang and the caller gave none
add_language_code(gg, endpoint, values) ==
    IF "lang" \notin DOMAIN values /\ "lang" \in UrlMap[endpoint]
      THEN DictSet(values, "lang", gg.lang)
      ELSE values

\* ---- init_g
\* request.url_root[request.url_root.index("//")+2:].startswith("beta.")
beta_request(req) ==
    StartsWith(PyFrom(url_root(req), Find(url_root(req), <<"/", "/">>) + 2),
               <<"b", "e", "t", "a", ".">>)

home_route(cfg) ==
    IF cfg["APPWEB_MODE"] = "search" THEN "files.home"
    ELSE IF cfg["APPWEB_MODE"] = "extras" THEN "extras.home"
    ELSE "files.home"

\* STATIC_PREFIX or static_url_path, and static_url_path on a beta host
app_static_prefix(cfg, beta) ==
    IF beta THEN static_url_path
    ELSE IF cfg["STATIC_PREFIX"] \in {"None", ""} THEN static_url_path
    ELSE cfg["STATIC_PREFIX"]

\* the attributes init_g sets on g (g.lang is not among them)
init_g(cfg, req, gg) ==
    [gg EXCEPT !.attrs = @ \cup GAttrs,
               !.search_bot = req.bot,
               !.beta_request = beta_request(req),
               !.home_route = home_route(cfg),
               !.static_prefix = app_static_prefix(cfg, beta_request(req))]

\* ---- RequestNormalizer
\* the condition without the part on the blueprint
redirect_trigger_any_blueprint(req) ==
    Len(req.path) > 1 /\ EndsWith(req.path, "/")

\* request.blueprint is None and len(request.path)>1 and path.endswith("/")
redirect_trigger(req) ==
    req.blueprint = "" /\ Len(req.path) > 1 /\ EndsWith(req.path, "/")

\* one trailing slash removed instead of all of them
redirect_target_one_slash(req) ==
    IF Find(request_url(req), <<"?">>) # -1
      THEN SubSeq(url_root(req), 1, Len(url_root(req)) - 1)
             \o SubSeq(req.path, 1, Len(req.path) - 1)
             \o PyFrom(request_url(req), Find(request_url(req), <<"?">>))
      ELSE SubSeq(request_url(req), 1, Len(request_url(req)) - 1)

\* root+path+query with a "?" in the url, else request.url.rstrip("/")
redirect_target(req) ==
    IF Find(request_url(req), <<"?">>) # -1
      THEN SubSeq(url_root(req), 1, Len(url_root(req)) - 1)
             \o RStrip(req.path, "/")
             \o PyFrom(request_url(req), Find(request_url(req), <<"?">>))
      ELSE RStrip(request_url(req), "/")

before_request(r) ==
    /\ app_pc = "running"
    /\ rq[r].pc = "preprocessed"
    /\ IF StartsWith(rq[r].path, StaticDir)
         THEN /\ rq' = [rq EXCEPT ![r].pc = "dispatch"]
              /\ UNCHANGED app_assets_url
         ELSE LET g1 == init_g(config, rq[r], rq[r].g)
              IN /\ app_assets_url' = g1.static_prefix
                 /\ IF redirect_trigger(rq[r])
                      THEN rq' = [rq EXCEPT ![r] =
                                    [@ EXCEPT !.pc = "responded",
                                              !.g = g1,
                                              !.resp = [NoResp EXCEPT
                                                  !.kind = "redirect",
                                                  !.status = 301,
                                                  !.location = redirect_target(rq[r])]]]
                      ELSE rq' = [rq EXCEPT ![r] = [@ EXCEPT !.pc = "dispatch", !.g = g1]]
    /\ UNCHANGED <<app_pc, revision_file, config, remap_vars>>

\* ---- dispatch to the view function (the views live in the blueprints)
ErrorCodes == {400, 401, 403, 404, 405, 408, 409, 410, 411, 412, 413,
               414, 415, 416, 417, 418, 500, 501, 502, 503}

\* what reaches all_errors: an HTTP error of a registered code, or (through
\* the 500 handler) an exception that has no code attribute
Raisable ==
    {[has_code |-> TRUE, code |-> c] : c \in ErrorCodes} \cup {NoErr}

\* values a view or template passes to url_for
UrlForValues == {[id |-> <<"7">>], [lang |-> En], [filename |-> <<"e">>]}

UrlForCalls(cfg) ==
    {[endpoint |-> ep, values |-> v] :
        ep \in RegisteredEndpoints(cfg), v \in UrlForValues}

dispatch(r) ==
    /\ app_pc = "running"
    /\ rq[r].pc = "dispatch"
    /\ \/ \* no rule matched: the routing exception is raised
          /\ ~ rq[r].matched
          /\ \E c \in {404, 405} :
               rq' = [rq EXCEPT ![r] =
                        [@ EXCEPT !.pc = "error", !.e = [has_code |-> TRUE, code |-> c]]]
       \/ \* the view raises
          /\ rq[r].matched
          /\ \E e \in Raisable :
               rq' = [rq EXCEPT ![r] =
                        [@ EXCEPT !.pc = "error", !.e = e,
                                  !.forwarded = rq[r].view_args]]
       \/ \* a blueprint view renders its page: links and asset urls are built
          /\ rq[r].matched
          /\ rq[r].blueprint # ""
          /\ \E call \in UrlForCalls(config) :
               rq' = [rq EXCEPT ![r] =
                        [@ EXCEPT !.pc = "responded",
                                  !.forwarded = rq[r].view_args,
                                  !.resp = [NoResp EXCEPT
                                      !.kind = "page",
                                      !.status = 200,
                                      !.asset_url = app_assets_url,
                                      !.built = [made |-> TRUE,
                                                 endpoint |-> call.endpoint,
                                                 values_in |-> call.values,
                                                 values_out |-> add_language_code(
                                                     rq[r].g, call.endpoint, call.values)]]]]
       \/ \* the static view sends the file
          /\ rq[r].matched
          /\ rq[r].blueprint = ""
          /\ rq' = [rq EXCEPT ![r] =
                      [@ EXCEPT !.pc = "responded",
                                !.forwarded = rq[r].view_args,
                                !.resp = [NoResp EXCEPT !.kind = "file", !.status = 200]]]
    /\ UNCHANGED <<app_vars, remap_vars>>

\* ---- ErrorDispatcher
errors ==
    (404 :> <<"Page not found", "The requested address does not exists.">>)
    @@ (410 :> <<"Page not available", "The requested address is no longer available.">>)
    @@ (500 :> <<"An error happened",
                 "We had some problems displaying this page. Maybe later we can show it to you.">>)
    @@ (503 :> <<"Service unavailable",
                 "This page is temporarily unavailable. Please try again later.">>)

Digits == <<"0", "1", "2", "3", "4", "5", "6", "7", "8", "9">>

\* str(n) for n >= 0
RECURSIVE Str(_)
Str(n) == IF n < 10 THEN <<Digits[n + 1]>> ELSE Str(n \div 10) \o <<Digits[(n % 10) + 1]>>

\* the page reporting the code its text was looked up under
error_page_substituted(e) ==
    LET error == IF e.has_code THEN e.code ELSE 500
        key == IF error \in DOMAIN errors THEN error ELSE 500
    IN [code |-> Str(key), title |-> errors[key][1],
        description |-> errors[key][2], status |-> key]

\* error = e.code if hasattr(e, "code") else 500; the text of that code or
\* of 500; the template gets str(error) and the response status is error
error_page(e) ==
    LET error == IF e.has_code THEN e.code ELSE 500
        key == IF error \in DOMAIN errors THEN error ELSE 500
    IN [code |-> Str(error), title |-> errors[key][1],
        description |-> errors[key][2], status |-> error]

\* the slice taken from the start of the path
error_lang_from_start(path) == IF Len(path) > 2 THEN PySlice(path, 0, 2) ELSE En

\* request.path[1:3] if len(request.path)>2 else "en"
error_lang(path) == IF Len(path) > 2 THEN PySlice(path, 1, 3) ELSE En

all_errors(r) ==
    /\ app_pc = "running"
    /\ rq[r].pc = "error"
    /\ LET page == error_page(rq[r].e)
           g0 == [rq[r].g EXCEPT !.lang = error_lang(rq[r].path),
                                 !.attrs = @ \cup {"lang"}]
           g1 == init_g(config, rq[r], g0)
           home == g1.home_route
       IN /\ app_assets_url' = g1.static_prefix
          /\ rq' = [rq EXCEPT ![r] =
                      [@ EXCEPT !.pc = "responded",
                                !.g = g1,
                                !.resp = [NoResp EXCEPT
                                    !.kind = "error",
                                    !.status = page.status,
                                    !.code = page.code,
                                    !.title = page.title,
                                    !.description = page.description,
                                    !.asset_url = g1.static_prefix,
                                    !.built =
                                      IF home \in RegisteredEndpoints(config)
                                        THEN [made |-> TRUE, endpoint |-> home,
                                              values_in |-> <<>>,
                                              values_out |-> add_language_code(g1, home, <<>>)]
                                        ELSE NoBuilt]]]
    /\ UNCHANGED <<app_pc, revision_file, config, remap_vars>>

after_request(r) ==
    /\ app_pc = "running"
    /\ rq[r].pc = "responded"
    /\ rq' = [rq EXCEPT ![r] =
                [@ EXCEPT !.pc = "done",
                          !.resp = [@ EXCEPT !.headers = @ \cup {"X-UA-Compatible"}]]]
    /\ UNCHANGED <<app_vars, remap_vars>>

\* ---- the client asks for the Location of a 301
ParseUrl(u) ==
    LET s == Find(u, <<"/", "/">>)
        rest == PyFrom(u, s + 2)
        ends == {i \in 1..Len(rest) : rest[i] \in {"/", "?"}}
        h == IF ends = {} THEN Len(rest)
             ELSE (CHOOSE i \in ends : \A j \in ends : i <= j) - 1
        tail == PyFrom(rest, h)
        q == Find(tail, <<"?">>)
    IN [scheme |-> SubSeq(u, 1, s),
        host |-> SubSeq(rest, 1, h),
        path |-> IF q = -1 THEN tail ELSE SubSeq(tail, 1, q),
        query |-> IF q = -1 THEN <<>> ELSE PyFrom(tail, q + 1)]

follow_redirect(r) ==
    /\ app_pc = "running"
    /\ rq[r].pc = "done"
    /\ rq[r].resp.kind = "redirect"
    /\ rq[r].hops < MaxHops
    /\ LET t == ParseUrl(rq[r].resp.location)
           path == IF t.path = <<>> THEN <<"/">> ELSE t.path
       IN \E route \in Routes(config, path) :
            rq' = [rq EXCEPT ![r] =
                     NewRequest(t.host, path, t.query, route, rq[r].bot, rq[r].hops + 1)]
    /\ UNCHANGED <<app_vars, remap_vars>>

NoPayload == [view |-> [file_type |-> "none"]]

IdleRemap ==
    /\ remap_pc = "idle"
    /\ data = [view |-> [file_type |-> "none"]]
    /\ data0 = [view |-> [file_type |-> "none"]]
    /\ new_data = NoPayload
    /\ result = NoPayload

RequestStep(r) ==
    \/ pull_lang_code(r)
    \/ before_request(r)
    \/ dispatch(r)
    \/ all_errors(r)
    \/ after_request(r)
    \/ follow_redirect(r)

\* -- one request at a time, every input (is_search_bot() goes by the
\* client's headers: one kind of client per host here)
InitReq ==
    /\ app_pc = "running"
    /\ revision_file = [exists |-> FALSE, data |-> <<>>]
    /\ config = revision_config([APPWEB_MODE |-> "search", STATIC_PREFIX |-> "//cdn"],
                                revision_file)
    /\ app_assets_url = static_url_path
    /\ \E host \in Hosts, path \in Paths, query \in Queries :
         \E route \in Routes(config, path) :
           rq = [r \in Requests |->
                   IF r = 1 THEN NewRequest(host, path, query, route, host = MainHost, 0)
                   ELSE NoRequest]
    /\ IdleRemap

NextReq == \E r \in Requests : RequestStep(r)

SpecReq == InitReq /\ [][NextReq]_vars

\* -- requests in flight together
NoRoute == [matched |-> FALSE, endpoint |-> "", blueprint |-> "", view_args |-> <<>>]

StaticRoute ==
    [matched |-> TRUE, endpoint |-> "static", blueprint |-> "",
     view_args |-> [filename |-> <<"e">>]]

RawRoute ==
    [matched |-> TRUE, endpoint |-> "files.raw", blueprint |-> "files",
     view_args |-> [id |-> <<"7">>]]

ConcRequests ==
    {NewRequest(BetaHost, <<"/", "e">>, <<>>, RawRoute, FALSE, 0),
     NewRequest(MainHost, <<"/", "e", "/">>, <<>>, NoRoute, FALSE, 0),
     NewRequest(MainHost, StaticDir \o <<"e">>, <<>>, StaticRoute, FALSE, 0)}

InitConc ==
    /\ app_pc = "running"
    /\ revision_file = [exists |-> FALSE, data |-> <<>>]
    /\ config = revision_config([APPWEB_MODE |-> "search", STATIC_PREFIX |-> "//cdn"],
                                revision_file)
    /\ app_assets_url = static_url_path
    /\ rq \in [Requests -> ConcRequests]
    /\ IdleRemap

SpecConc == InitConc /\ [][NextReq]_vars

\* -- start-up, then requests
StartRequests(cfg) ==
    {NewRequest(MainHost, <<"/", "e", "/">>, <<>>, route, FALSE, 0) :
        route \in {x \in Routes(cfg, <<"/", "e", "/">>) :
                     x.endpoint \in {"", "files.raw", "extras.raw"}}}
    \cup {NewRequest(MainHost, StaticDir \o <<"e">>, <<>>, StaticRoute, FALSE, 0)}

InitStart ==
    /\ app_pc = "boot"
    /\ revision_file \in RevisionFiles
    /\ config \in BaseConfigs
    /\ app_assets_url = "unset"
    /\ \E q \in StartRequests(config) :
         rq = [r \in Requests |-> IF r = 1 THEN q ELSE NoRequest]
    /\ IdleRemap

NextStart == create_app \/ NextReq

SpecStart == InitStart /\ [][NextStart]_vars

\* ------------------------------------------------------- CategoryRemapper
\* g.categories as set by init_g: (categoryName, {"q": tagQuery}) in order
categories ==
    << <<"movies", [q |-> "movie"]>>,
       <<"games", [q |-> "game"]>>,
       <<"tv", [q |-> "series"]>>,
       <<"music", [q |-> "audio"]>>,
       <<"anime", [q |-> "anime"]>>,
       <<"books", [q |-> "ebook"]>>,
       <<"adult", [q |-> "porn"]>>,
       <<"software", [q |-> "software"]>>,
       <<"mobile", [q |-> "mobile"]>>,
       <<"pictures", [q |-> "image"]>> >>

\* the local dict "defaults" of torrents_data2
defaults == [video |-> "movies", document |-> "books", audio |-> "music", picture |-> "image"]

RECURSIVE FirstMatchFrom(_, _, _)
FirstMatchFrom(ft, file_tags, i) ==
    IF i > Len(categories) THEN ft
    ELSE IF categories[i][2].q \in Range(file_tags) THEN categories[i][1]
    ELSE FirstMatchFrom(ft, file_tags, i + 1)

\* the loop as it would be with a break after the assignment
remap_category_break(ft, file_tags) == FirstMatchFrom(ft, file_tags, 1)

RECURSIVE CategoryLoop(_, _, _)
CategoryLoop(ft, file_tags, i) ==
    IF i > Len(categories) THEN ft
    ELSE CategoryLoop(IF categories[i][2].q \in Range(file_tags)
                        THEN categories[i][1] ELSE ft,
                      file_tags, i + 1)

\* for category in g.categories: if category[1]["q"] in file_tags: assign
\* (no break: every matching entry assigns in turn)
remap_category(ft, file_tags) == CategoryLoop(ft, file_tags, 1)

\* the fallback without the "type unchanged" comparison
fallback_type_unguarded(file_type, cur) ==
    IF file_type \in DOMAIN defaults THEN defaults[file_type] ELSE cur

\* if file_type == data.view.file_type and it is a key of defaults: map it
fallback_type(file_type, cur) ==
    IF file_type = cur
      THEN (IF cur \in DOMAIN defaults THEN defaults[cur] ELSE cur)
      ELSE cur

Tags == {"movie", "game", "series", "audio", "anime", "ebook", "porn",
         "software", "mobile", "image", "hd"}

FileTypes == {"video", "document", "audio", "picture", "movies", "pictures",
              "unknown_type"}

\* views a caller can pass: file_type always, tags optional
InputViews ==
    {[file_type |-> t] : t \in FileTypes}
    \cup {[file_type |-> t, tags |-> s] : t \in FileTypes, s \in {<<>>, <<"movie">>}}

\* appweb.blueprints.files.torrents_data: the rendered payload; its view
\* carries the file type and may or may not carry a tags sequence
old_torrents_data(d) ==
    {[view |-> [file_type |-> d.view.file_type]]}
    \cup {[view |-> [file_type |-> d.view.file_type, tags |-> s]] :
            s \in SeqsUpTo(Tags, MaxTags)}

\* one call of torrents_data2(data)
torrents_data2 ==
    /\ remap_pc = "call"
    /\ \E nd \in old_torrents_data(data) :
         LET file_type == data.view.file_type
         IN IF "tags" \in DOMAIN data.view /\ "tags" \notin DOMAIN nd.view
              THEN \* new_data["view"]["tags"] raises KeyError
                   /\ remap_pc' = "raised"
                   /\ new_data' = nd
                   /\ result' = NoPayload
                   /\ data' = data
              ELSE LET file_tags == IF "tags" \in DOMAIN data.view
                                      THEN nd.view.tags ELSE <<>>
                       t1 == remap_category(file_type, file_tags)
                       t2 == fallback_type(file_type, t1)
                       v1 == DictSet(data.view, "file_type", t2)
                       v2 == DictSet(v1, "first_image_server", "images.torrents.com")
                   IN /\ remap_pc' = "returned"
                      /\ new_data' = nd
                      /\ result' = nd
                      /\ data' = [view |-> v2]
    /\ UNCHANGED <<data0, app_vars, rq>>

\* the next file record is handed to the wrapper
next_record ==
    /\ remap_pc \in {"returned", "raised"}
    /\ \E v \in InputViews :
         /\ data' = [view |-> v]
         /\ data0' = [view |-> v]
    /\ remap_pc' = "call"
    /\ new_data' = NoPayload
    /\ result' = NoPayload
    /\ UNCHANGED <<app_vars, rq>>

InitRemap ==
    /\ app_pc = "running"
    /\ revision_file = [exists |-> FALSE, data |-> <<>>]
    /\ config = revision_config([APPWEB_MODE |-> "search", STATIC_PREFIX |-> "None"],
                                revision_file)
    /\ app_assets_url = static_url_path
    /\ rq = [r \in Requests |-> NoRequest]
    /\ remap_pc = "call"
    /\ \E v \in InputViews :
         /\ data = [view |-> v]
         /\ data0 = [view |-> v]
    /\ new_data = NoPayload
    /\ result = NoPayload

NextRemap == torrents_data2 \/ next_record

SpecRemap == InitRemap /\ [][NextRemap]_vars

\* ================================================================ claims

\* the tag sequence a finished call of torrents_data2 has read
FileTagsRead == IF "tags" \in DOMAIN data0.view THEN new_data.view.tags ELSE <<>>

\* the positions of the table entries whose query is among the tags
Matching(file_tags) ==
    {i \in 1..Len(categories) : categories[i][2].q \in Range(file_tags)}

\* C1 as stated: when a call has returned and at least one table entry's
\* query is among the file's tags, the input's file_type is the name of the
\* FIRST such entry in the declared order.
C1_FirstMatchWins ==
    (remap_pc = "returned" /\ Matching(FileTagsRead) # {}) =>
        LET first == CHOOSE i \in Matching(FileTagsRead) :
                        \A j \in Matching(FileTagsRead) : i <= j
        IN data.view.file_type = categories[first][1]

\* C1 amended: when a call has returned and at least one table entry's query
\* is among the tags it read, the input's file_type is the name of the LAST
\* such entry in the declared order.
C1_LastMatchWins ==
    (remap_pc = "returned" /\ Matching(FileTagsRead) # {}) =>
        LET last == CHOOSE i \in Matching(FileTagsRead) :
                       \A j \in Matching(FileTagsRead) : i >= j
        IN data.view.file_type = categories[last][1]

C1_Witness ==
    /\ remap_pc = "returned"
    /\ FileTagsRead = <<"movie", "image">>
    /\ data0.view.file_type = "video"
    /\ data.view.file_type = "pictures"

\* C2: when a call has returned and no table entry matches the tags, the
\* input's file_type is movies/books/music/image for an original type of
\* video/document/audio/picture and the original type otherwise; when some
\* entry matches, the file_type is the name of a matching entry (the
\* fallback is not applied), also when that name equals the original type.
C2_Fallback ==
    remap_pc = "returned" =>
        LET orig == data0.view.file_type
            m == Matching(FileTagsRead)
        IN IF m = {}
             THEN data.view.file_type =
                    (CASE orig = "video" -> "movies"
                       [] orig = "document" -> "books"
                       [] orig = "audio" -> "music"
                       [] orig = "picture" -> "image"
                       [] OTHER -> orig)
             ELSE data.view.file_type \in {categories[i][1] : i \in m}

C2_Witness ==
    /\ remap_pc = "returned"
    /\ Matching(FileTagsRead) # {}
    /\ data0.view.file_type = "movies"
    /\ data.view.file_type = data0.view.file_type

\* C8: every call, once over, has returned exactly the base transform's
\* output, has written no field of the input's view other than file_type
\* and first_image_server, and has set first_image_server of the input to
\* "images.torrents.com", whether or not either view carries tags.
C8_ReturnAndFrame ==
    remap_pc \in {"returned", "raised"} =>
        /\ result = new_data
        /\ DOMAIN data.view = (DOMAIN data0.view) \cup {"first_image_server"}
        /\ \A k \in (DOMAIN data0.view) \ {"file_type", "first_image_server"} :
              data.view[k] = data0.view[k]
        /\ data.view["first_image_server"] = "images.torrents.com"

\* C3: once the application runs, no step of any request writes process-wide
\* state: app.assets.url, the prefix every request's asset URLs are built
\* with, stays as start-up left it.
C3_NoCrossRequestState ==
    [][app_pc = "running" => app_assets_url' = app_assets_url]_vars

\* C4: a redirect's target keeps the scheme, the host and the query string
\* of the request, its path has no trailing slash, and no request that
\* follows a redirect is redirected again.
C4_RedirectIdempotent ==
    \A r \in Requests :
        rq[r].resp.kind = "redirect" =>
            LET t == ParseUrl(rq[r].resp.location)
            IN /\ t.scheme = Scheme
               /\ t.host = rq[r].host
               /\ t.query = rq[r].query
               /\ ~ EndsWith(t.path, "/")
               /\ rq[r].hops = 0

C4_Witness ==
    /\ rq[1].hops = 1
    /\ rq[1].pc = "done"
    /\ rq[1].query = <<"?", "/">>
    /\ rq[1].path = <<"/">>
    /\ rq[1].resp.kind = "error"

\* C5: the before-request step answers with a 301 exactly when the path is
\* not under /static/, no rule matched, the path is longer than 1 and ends
\* with a slash; otherwise it leaves no response and the request goes on to
\* dispatch; off /static/ the request context is populated either way.
C5_RedirectTrigger ==
    [][\A r \in Requests :
         (rq[r].pc = "preprocessed" /\ rq'[r].pc # "preprocessed") =>
            /\ IF /\ ~ StartsWith(rq[r].path, StaticDir)
                  /\ ~ rq[r].matched
                  /\ Len(rq[r].path) > 1
                  /\ rq[r].path[Len(rq[r].path)] = "/"
                 THEN /\ rq'[r].pc = "responded"
                      /\ rq'[r].resp.kind = "redirect"
                      /\ rq'[r].resp.status = 301
                 ELSE /\ rq'[r].pc = "dispatch"
                      /\ rq'[r].resp = NoResp
            /\ (~ StartsWith(rq[r].path, StaticDir)) => GAttrs \subseteq rq'[r].g.attrs
            /\ StartsWith(rq[r].path, StaticDir) => rq'[r].g = rq[r].g
      ]_vars

C5_Witness ==
    /\ rq[1].resp.kind = "redirect"
    /\ rq[1].resp.status = 301
    /\ GAttrs \subseteq rq[1].g.attrs
    /\ rq[1].path = <<"/", "e", "/">>

\* the number a decimal numeral stands for
RECURSIVE DecVal(_)
DecVal(s) == IF s = <<>> THEN 0 ELSE (DecVal(SubSeq(s, 1, Len(s) - 1)) * 10)
                 + (CHOOSE d \in 0..9 : Digits[d + 1] = s[Len(s)])

\* C6: every error handed to the dispatcher is rendered; the status and the
\* template code are the raised code (500 when the error has none); the
\* text is the curated one of 404, 410, 500, 503 and the one of 500 for
\* every other code.
C6_ErrorPage ==
    \A r \in Requests :
        /\ rq[r].pc = "error" => ENABLED all_errors(r)
        /\ rq[r].resp.kind = "error" =>
             LET eff == IF rq[r].e.has_code THEN rq[r].e.code ELSE 500
             IN /\ rq[r].resp.status = eff
                /\ DecVal(rq[r].resp.code) = eff
                /\ rq[r].resp.title =
                     (CASE eff = 404 -> "Page not found"
                        [] eff = 410 -> "Page not available"
                        [] eff = 503 -> "Service unavailable"
                        [] OTHER -> "An error happened")
                /\ rq[r].resp.description =
                     (CASE eff = 404 -> "The requested address does not exists."
                        [] eff = 410 -> "The requested address is no longer available."
                        [] eff = 503 ->
                             "This page is temporarily unavailable. Please try again later."
                        [] OTHER ->
                             "We had some problems displaying this page. Maybe later we can show it to you.")

C6_Witness ==
    /\ rq[1].resp.kind = "error"
    /\ rq[1].e = [has_code |-> TRUE, code |-> 408]
    /\ rq[1].resp.status = 408
    /\ rq[1].resp.title = "An error happened"

\* C7: after an error page is rendered the active locale is characters 1-2
\* of the path when the path has at least 3 characters and "en" otherwise,
\* whatever the route had captured, and the request context is populated.
C7_ErrorLocale ==
    \A r \in Requests :
        rq[r].resp.kind = "error" =>
            /\ rq[r].g.lang = (IF Len(rq[r].path) >= 3
                                 THEN <<rq[r].path[2], rq[r].path[3]>>
                                 ELSE <<"e", "n">>)
            /\ GAttrs \cup {"lang"} \subseteq rq[r].g.attrs

C7_Witness ==
    /\ rq[1].resp.kind = "error"
    /\ "lang" \in DOMAIN rq[1].captured
    /\ rq[1].captured["lang"] = <<"e", "s">>
    /\ rq[1].path = <<"/", "s", "e">>
    /\ rq[1].g.lang = <<"s", "e">>

\* the view of request r has been called
ViewCalled(r) ==
    /\ rq[r].matched
    /\ \/ rq[r].pc = "error"
       \/ rq[r].resp.kind \in {"page", "file", "error"}

\* C9: until an error page replaces it, the active locale of a request is
\* the captured lang, or "en" when none was captured or no rule matched;
\* the view gets the captured values without lang; a URL built for an
\* endpoint that declares lang carries the active locale when the caller
\* gave no lang, and the caller's values are unchanged otherwise.
C9_LocalePreserved ==
    \A r \in Requests :
        /\ (rq[r].pc \notin {"none", "routed"} /\ rq[r].resp.kind # "error") =>
              rq[r].g.lang = (IF rq[r].matched /\ "lang" \in DOMAIN rq[r].captured
                                THEN rq[r].captured["lang"] ELSE <<"e", "n">>)
        /\ ViewCalled(r) =>
              /\ DOMAIN rq[r].forwarded = (DOMAIN rq[r].captured) \ {"lang"}
              /\ \A k \in DOMAIN rq[r].forwarded : rq[r].forwarded[k] = rq[r].captured[k]
        /\ rq[r].resp.built.made =>
              LET b == rq[r].resp.built
              IN IF "lang" \in UrlMap[b.endpoint] /\ "lang" \notin DOMAIN b.values_in
                   THEN /\ DOMAIN b.values_out = (DOMAIN b.values_in) \cup {"lang"}
                        /\ b.values_out["lang"] = rq[r].g.lang
                        /\ \A k \in DOMAIN b.values_in : b.values_out[k] = b.values_in[k]
                   ELSE /\ DOMAIN b.values_out = DOMAIN b.values_in
                        /\ \A k \in DOMAIN b.values_in : b.values_out[k] = b.values_in[k]

C9_Witness ==
    /\ rq[1].resp.kind = "page"
    /\ rq[1].captured = [lang |-> <<"e", "s">>, id |-> <<"7">>]
    /\ DOMAIN rq[1].forwarded = {"id"}
    /\ rq[1].resp.built.endpoint = "files.home"
    /\ rq[1].resp.built.values_in = [id |-> <<"7">>]
    /\ rq[1].resp.built.values_out["lang"] = <<"e", "s">>

\* C10: create_app leaves the cache-key prefix as it was, a null fingerprint
\* and an empty manifest when the file is absent; with the file present the
\* prefix is the one configured before (empty when none was) followed by
\* the fingerprint and "/", the fingerprint being the digest of the file's
\* raw text; and no step after create_app changes the configuration.
C10_StartupState ==
    [][/\ (app_pc = "boot" /\ app_pc' = "running") =>
            /\ DOMAIN config' = (DOMAIN config) \cup {"REVISION_HASH", "REVISION"}
                    \cup (IF revision_file.exists THEN {"CACHE_KEY_PREFIX"} ELSE {})
            /\ \A k \in (DOMAIN config) \ {"CACHE_KEY_PREFIX"} : config'[k] = config[k]
            /\ IF revision_file.exists
                 THEN /\ config'["REVISION_HASH"].some
                      /\ config'["REVISION_HASH"].val = md5_hexdigest(revision_file.data)
                      /\ config'["CACHE_KEY_PREFIX"] =
                           (IF "CACHE_KEY_PREFIX" \in DOMAIN config
                              THEN config["CACHE_KEY_PREFIX"] ELSE <<>>)
                           \o config'["REVISION_HASH"].val \o <<"/">>
                 ELSE /\ ~ config'["REVISION_HASH"].some
                      /\ config'["REVISION"] = <<>>
                      /\ "CACHE_KEY_PREFIX" \in DOMAIN config =>
                            config'["CACHE_KEY_PREFIX"] = config["CACHE_KEY_PREFIX"]
       /\ app_pc = "running" => (config' = config /\ app_pc' = "running")
      ]_vars

C10_Witness ==
    /\ app_pc = "running"
    /\ revision_file.exists
    /\ revision_file.data = <<"a", " ", "#">>
    /\ Len(config["CACHE_KEY_PREFIX"]) = 7
    /\ SubSeq(config["CACHE_KEY_PREFIX"], 1, 2) = <<"p", "/">>
    /\ rq[1].pc = "done"

====
